---- MODULE Spec2Model ----
(***************************************************************************)
(* ContinuousOptimalBinning2D (optbinning, continuous_binning_2d.py):      *)
(* the fit / transform life cycle of one estimator instance.               *)
(*                                                                         *)
(* Python values are encoded as follows.                                   *)
(*   - an optional value is a sequence: None is <<>>, a value v is <<v>>;  *)
(*     a float that may be NaN is encoded the same way (NaN is <<>>);      *)
(*   - a fraction (min_bin_size, ...) is a pair <<num, den>>;              *)
(*   - a 1-D array is a sequence (index k of numpy is index k+1 here);     *)
(*   - a 2-D array of shape (a, b) is a function on (0..a-1) \X (0..b-1);  *)
(*   - a standard deviation is kept as the integer n*sum(z^2) - sum(z)^2   *)
(*     (n^2 times the variance), which is zero exactly when the deviation  *)
(*     is zero.                                                            *)
(* Timing fields and the logger are left out.                              *)
(***************************************************************************)
EXTENDS Integers, Sequences, FiniteSets, TLC

VARIABLES
    params,     \* constructor arguments (get_params())
    self,       \* the instance's underscore fields
    pc,         \* position of the call in progress ("idle" between calls)
    loc,        \* arguments and locals of the current / last fit call
    outcome,    \* how the last finished call ended
    committed,  \* history: the fields as they were when fit last returned
    calls,      \* fit calls the caller may still make
    pool,       \* the data sets the caller passes to fit
    tcall       \* the last transform call that returned since the last fit
                \* call began: its data and output

vars == <<params, self, pc, loc, outcome, committed, calls, pool, tcall>>

(***************************************************************************)
(* Bounds                                                                  *)
(***************************************************************************)
MaxSamples == 3
MaxFits == 2

(***************************************************************************)
(* Encodings                                                               *)
(***************************************************************************)
None == <<>>
Some(v) == <<v>>
IsNone(o) == o = <<>>
Val(o) == o[1]

Range(s) == {s[k] : k \in 1..Len(s)}

RECURSIVE SumSeq(_)
SumSeq(s) == IF s = <<>> THEN 0 ELSE Head(s) + SumSeq(Tail(s))

RECURSIVE SelectIdx(_, _, _)
\* the indices k (ascending) of 1..n at which mask[k] holds: numpy's a[mask]
SelectIdx(mask, n, k) ==
    IF k > n THEN <<>>
    ELSE IF mask[k] THEN <<k>> \o SelectIdx(mask, n, k + 1)
    ELSE SelectIdx(mask, n, k + 1)

\* ceil(f * n) for a fraction f = <<num, den>>
CeilScale(f, n) == (f[1] * n + f[2] - 1) \div f[2]

(***************************************************************************)
(* Constructor arguments and _check_parameters                             *)
(***************************************************************************)
DefaultParams ==
    [ dtype_x |-> "numerical", dtype_y |-> "numerical",
      prebinning_method |-> "cart", strategy |-> "grid", solver |-> "cp",
      max_n_prebins_x |-> 5, max_n_prebins_y |-> 5,
      min_prebin_size_x |-> <<1, 20>>, min_prebin_size_y |-> <<1, 20>>,
      min_n_bins |-> None, max_n_bins |-> None,
      min_bin_size |-> None, max_bin_size |-> None,
      monotonic_trend_x |-> None, monotonic_trend_y |-> None,
      gamma |-> 0, special_codes_x |-> {9}, special_codes_y |-> {9},
      split_digits |-> None, time_limit |-> 100 ]

\* 0 < f <= hi for fractions f, hi
FracIn(f, hi) == f[1] * f[2] > 0 /\ f[1] * hi[2] <= hi[1] * f[2]
FracGt(f, g) == f[1] * g[2] > g[1] * f[2]

\* _check_parameters without its gamma and time_limit tests
check_parameters_lax(p) ==
    /\ p.dtype_x \in {"numerical"}
    /\ p.dtype_y \in {"numerical"}
    /\ p.prebinning_method \in {"cart", "mdlp", "quantile", "uniform"}
    /\ p.strategy \in {"grid", "cart"}
    /\ p.solver \in {"cp", "mip"}
    /\ ~(p.max_n_prebins_x <= 1)
    /\ ~(p.max_n_prebins_y <= 1)

\* TRUE when _check_parameters returns, FALSE when it raises
check_parameters(p) ==
    /\ p.dtype_x \in {"numerical"}
    /\ p.dtype_y \in {"numerical"}
    /\ p.prebinning_method \in {"cart", "mdlp", "quantile", "uniform"}
    /\ p.strategy \in {"grid", "cart"}
    /\ p.solver \in {"cp", "mip"}
    /\ ~(p.max_n_prebins_x <= 1)
    /\ ~(p.max_n_prebins_y <= 1)
    /\ FracIn(p.min_prebin_size_x, <<1, 2>>)
    /\ FracIn(p.min_prebin_size_y, <<1, 2>>)
    /\ (~IsNone(p.min_n_bins) => ~(Val(p.min_n_bins) <= 0))
    /\ (~IsNone(p.max_n_bins) => ~(Val(p.max_n_bins) <= 0))
    /\ (~IsNone(p.min_n_bins) /\ ~IsNone(p.max_n_bins)
            => ~(Val(p.min_n_bins) > Val(p.max_n_bins)))
    /\ (~IsNone(p.min_bin_size) => FracIn(Val(p.min_bin_size), <<1, 2>>))
    /\ (~IsNone(p.max_bin_size) => FracIn(Val(p.max_bin_size), <<1, 1>>))
    /\ (~IsNone(p.min_bin_size) /\ ~IsNone(p.max_bin_size)
            => ~FracGt(Val(p.min_bin_size), Val(p.max_bin_size)))
    /\ (~IsNone(p.monotonic_trend_x)
            => Val(p.monotonic_trend_x) \in {"ascending", "descending"})
    /\ (~IsNone(p.monotonic_trend_y)
            => Val(p.monotonic_trend_y) \in {"ascending", "descending"})
    /\ ~(p.gamma < 0)
    /\ (~IsNone(p.split_digits)
            => (0 <= Val(p.split_digits) /\ Val(p.split_digits) <= 8))
    /\ ~(p.time_limit < 0)

\* the configurations a caller constructs the estimator with
ValidParams ==
    { DefaultParams,
      [DefaultParams EXCEPT !.min_bin_size = Some(<<1, 4>>),
                            !.max_bin_size = Some(<<3, 4>>)],
      [DefaultParams EXCEPT !.strategy = "cart", !.max_n_bins = Some(2)] }

MalformedParams ==
    { [DefaultParams EXCEPT !.min_n_bins = Some(2), !.max_n_bins = Some(1)],
      [DefaultParams EXCEPT !.min_bin_size = Some(<<1, 2>>),
                            !.max_bin_size = Some(<<1, 4>>)],
      [DefaultParams EXCEPT !.max_n_prebins_x = 1],
      [DefaultParams EXCEPT !.gamma = -1],
      [DefaultParams EXCEPT !.time_limit = -1],
      [DefaultParams EXCEPT !.strategy = "tree"],
      [DefaultParams EXCEPT !.solver = "lp"] }

(***************************************************************************)
(* Input data: fit(x, y, z) receives three parallel arrays, kept here as   *)
(* one sequence of samples <<x, y, z>>; x and y may be NaN (<<>>).         *)
(***************************************************************************)
SampleSeq ==
    << <<Some(0), Some(0), 1>>,
       <<Some(1), Some(2), 2>>,
       <<Some(2), Some(1), 3>>,
       <<None,    Some(1), 4>>,
       <<Some(9), Some(0), 5>> >>

\* the data sets of at most n samples (order within a data set is canonical)
Datasets(n) ==
    UNION { { [k \in 1..len |-> SampleSeq[idx[k]]] :
                idx \in { f \in [1..len -> 1..Len(SampleSeq)] :
                            \A a, b \in 1..len : a <= b => f[a] <= f[b] } } :
            len \in 0..n }

X(s) == s[1]
Y(s) == s[2]
Z(s) == s[3]

ZSum(samples) == SumSeq([k \in 1..Len(samples) |-> Z(samples[k])])
ZSumSq(samples) == SumSeq([k \in 1..Len(samples) |-> Z(samples[k]) * Z(samples[k])])

\* np.std, kept as n * sum(z^2) - sum(z)^2
NpStd(samples) == Len(samples) * ZSumSq(samples) - ZSum(samples) * ZSum(samples)

(***************************************************************************)
(* Collaborators outside the file                                          *)
(***************************************************************************)
RECURSIVE FilterSeq(_, _)
FilterSeq(s, keep) ==
    IF s = <<>> THEN <<>>
    ELSE IF Head(s) \in keep THEN <<Head(s)>> \o FilterSeq(Tail(s), keep)
    ELSE FilterSeq(Tail(s), keep)

IsSpecial(p, s) ==
    \/ (~IsNone(X(s)) /\ Val(X(s)) \in p.special_codes_x)
    \/ (~IsNone(Y(s)) /\ Val(Y(s)) \in p.special_codes_y)
IsMissing(p, s) == ~IsSpecial(p, s) /\ (IsNone(X(s)) \/ IsNone(Y(s)))
IsClean(p, s) == ~IsSpecial(p, s) /\ ~IsMissing(p, s)

\* preprocessing_2d.split_data_2d: <<clean, missing, special>>
split_data_2d(p, data) ==
    << FilterSeq(data, {s \in Range(data) : IsClean(p, s)}),
       FilterSeq(data, {s \in Range(data) : IsMissing(p, s)}),
       FilterSeq(data, {s \in Range(data) : IsSpecial(p, s)}) >>

RECURSIVE SortedSeq(_)
SortedSeq(S) ==
    IF S = {} THEN <<>>
    ELSE LET lo == CHOOSE v \in S : \A w \in S : v <= w
         IN  <<lo>> \o SortedSeq(S \ {lo})

\* the cut points a pre-binner may propose on an axis
SplitPoints == {1, 2}

\* the number of values in the i-th interval (0-based) cut by splits
LeafCount(values, splits, i) ==
    Cardinality({ k \in 1..Len(values) :
                    /\ (i = 0 \/ splits[i] <= values[k])
                    /\ (i = Len(splits) \/ values[k] < splits[i + 1]) })

\* OptimalBinning2D._fit_prebinning: the split arrays it may return, of at
\* most max_n_prebins - 1 cuts, every leaf holding min_prebin_size of the values
fit_prebinning(values, max_n_prebins, min_prebin_size) ==
    { splits \in { SortedSeq(T) : T \in SUBSET SplitPoints } :
        /\ Len(splits) <= max_n_prebins - 1
        /\ \A i \in 0..Len(splits) :
              LeafCount(values, splits, i) * min_prebin_size[2]
                  >= min_prebin_size[1] * Len(values) }

(***************************************************************************)
(* Grid aggregator: _prebinning_matrices                                   *)
(***************************************************************************)
RECURSIVE BisectRight(_, _, _, _)
BisectRight(bins, v, lo, hi) ==
    IF lo >= hi THEN lo
    ELSE LET mid == (lo + hi) \div 2
         IN  IF v < bins[mid + 1] THEN BisectRight(bins, v, lo, mid)
             ELSE BisectRight(bins, v, mid + 1, hi)

RECURSIVE BisectLeft(_, _, _, _)
BisectLeft(bins, v, lo, hi) ==
    IF lo >= hi THEN lo
    ELSE LET mid == (lo + hi) \div 2
         IN  IF bins[mid + 1] < v THEN BisectLeft(bins, v, mid + 1, hi)
             ELSE BisectLeft(bins, v, lo, mid)

\* np.digitize(v, bins, right=True): bins[i-1] < v <= bins[i]
digitize_right_closed(v, bins) == BisectLeft(bins, v, 0, Len(bins))

\* np.digitize(v, bins, right=False): bins[i-1] <= v < bins[i]
digitize(v, bins) == BisectRight(bins, v, 0, Len(bins))

Shape(a, b) == (0..(a - 1)) \X (0..(b - 1))

\* the clean samples selected by mask_x & mask_y for loop indices i, j
Masked(clean, indices_x, indices_y, i, j) ==
    FilterSeq(clean, {clean[k] : k \in {q \in 1..Len(clean) :
                                   indices_y[q] = i /\ indices_x[q] = j}})

\* [raised |-> TRUE] when an assignment R[i, j] is out of bounds, else the
\* index arrays and the three matrices of shape (n_bins_x, n_bins_y)
prebinning_matrices(splits_x, splits_y, clean) ==
    LET n_bins_x == Len(splits_x) + 1
        n_bins_y == Len(splits_y) + 1
        indices_x == [k \in 1..Len(clean) |-> digitize(Val(X(clean[k])), splits_x)]
        indices_y == [k \in 1..Len(clean) |-> digitize(Val(Y(clean[k])), splits_y)]
        loop == (0..(n_bins_y - 1)) \X (0..(n_bins_x - 1))
        Cell(c) == Masked(clean, indices_x, indices_y, c[1], c[2])
    IN  IF \E c \in loop : c \notin Shape(n_bins_x, n_bins_y)
        THEN [raised |-> TRUE]
        ELSE [raised |-> FALSE,
              indices_x |-> indices_x, indices_y |-> indices_y,
              shape |-> <<n_bins_x, n_bins_y>>,
              R |-> [c \in Shape(n_bins_x, n_bins_y) |-> Len(Cell(c))],
              S |-> [c \in Shape(n_bins_x, n_bins_y) |-> ZSum(Cell(c))],
              SS |-> [c \in Shape(n_bins_x, n_bins_y) |-> ZSumSq(Cell(c))]]

(***************************************************************************)
(* Optimization adapter: model data and solver (outside the file)          *)
(***************************************************************************)
Rectangles(m, n) ==
    { [h |-> h, w |-> w, i |-> i, j |-> j] :
        h \in 1..m, w \in 1..n, i \in 0..(m - 1), j \in 0..(n - 1) }

InGrid(r, m, n) == r.i + r.h <= m /\ r.j + r.w <= n

RectKey(r, m, n) == ((r.h - 1) * n + (r.w - 1)) * (m * n) + r.i * n + r.j

\* the flat (row-major) cell indices of a rectangle, ascending
RectCells(r, n) ==
    SortedSeq({ n * (r.i + a) + (r.j + b) : a \in 0..(r.h - 1), b \in 0..(r.w - 1) })

\* every axis-aligned rectangle of contiguous cells, in enumeration order
AllRows(m, n) ==
    LET rects == { r \in Rectangles(m, n) : InGrid(r, m, n) }
        keys == SortedSeq({ RectKey(r, m, n) : r \in rects })
    IN  [k \in 1..Len(keys) |->
            RectCells(CHOOSE r \in rects : RectKey(r, m, n) = keys[k], n)]

Unflat(c, n) == <<c \div n, c % n>>

RowStat(M, row, n) == SumSeq([k \in 1..Len(row) |-> M[Unflat(row[k], n)]])

\* model_data_2d.continuous_model_data: candidates and their statistics
continuous_model_data(R, S, SS, shape) ==
    LET rows == AllRows(shape[1], shape[2])
        n == shape[2]
    IN  [rows |-> rows,
         n_records |-> [k \in 1..Len(rows) |-> RowStat(R, rows[k], n)],
         sums |-> [k \in 1..Len(rows) |-> RowStat(S, rows[k], n)],
         stds |-> [k \in 1..Len(rows) |->
                     RowStat(R, rows[k], n) * RowStat(SS, rows[k], n)
                     - RowStat(S, rows[k], n) * RowStat(S, rows[k], n)]]

\* the row-major cell indices of the block of rows r0..r1 and columns c0..c1
Block(n, r0, r1, c0, c1) == { n * i + j : i \in r0..r1, j \in c0..c1 }

\* DecisionTreeRegressor.fit on the (x-bin, y-bin) pairs: the leaves of the
\* trees it may grow, each leaf a block of cells; one leaf, or one cut
CartTrees(m, n) ==
    { { Block(n, 0, m - 1, 0, n - 1) } }
    \cup { { Block(n, 0, b - 1, 0, n - 1), Block(n, b, m - 1, 0, n - 1) } :
             b \in 1..(m - 1) }
    \cup { { Block(n, 0, m - 1, 0, b - 1), Block(n, 0, m - 1, b, n - 1) } :
             b \in 1..(n - 1) }

\* model_data_cart_2d.continuous_model_data_cart: the candidates that lie
\* within one leaf of the tree, and their statistics
continuous_model_data_cart(clf, R, S, SS, shape) ==
    LET all == AllRows(shape[1], shape[2])
        kept == SelectIdx([k \in 1..Len(all) |->
                              \E leaf \in clf : Range(all[k]) \subseteq leaf],
                          Len(all), 1)
        rows == [k \in 1..Len(kept) |-> all[kept[k]]]
        n == shape[2]
    IN  [rows |-> rows,
         n_records |-> [k \in 1..Len(rows) |-> RowStat(R, rows[k], n)],
         sums |-> [k \in 1..Len(rows) |-> RowStat(S, rows[k], n)],
         stds |-> [k \in 1..Len(rows) |->
                     RowStat(R, rows[k], n) * RowStat(SS, rows[k], n)
                     - RowStat(S, rows[k], n) * RowStat(S, rows[k], n)]]

Statuses == {"optimal", "feasible", "infeasible", "time-limit-reached"}

Covering(rows, sel, c) == { k \in 1..Len(rows) : sel[k] /\ c \in Range(rows[k]) }

\* each cell of the grid covered by exactly one selected candidate
IsTiling(rows, sel, ncells) ==
    \A c \in 0..(ncells - 1) : Cardinality(Covering(rows, sel, c)) = 1

NSelected(sel) == Cardinality({ k \in DOMAIN sel : sel[k] })

\* the constraints of the selection model built by build_model, the tiling
\* constraint apart
WithinBounds(p, md, sel, bounds) ==
    /\ (~IsNone(p.min_n_bins) => NSelected(sel) >= Val(p.min_n_bins))
    /\ (~IsNone(p.max_n_bins) => NSelected(sel) <= Val(p.max_n_bins))
    /\ \A k \in DOMAIN sel : sel[k] =>
          /\ (~IsNone(bounds[1]) => md.n_records[k] >= Val(bounds[1]))
          /\ (~IsNone(bounds[2]) => md.n_records[k] <= Val(bounds[2]))

RECURSIVE TilingsOf(_, _)
\* the sets of candidates that cover the cells of uncov exactly once each
TilingsOf(uncov, rows) ==
    IF uncov = {} THEN {{}}
    ELSE LET c == CHOOSE v \in uncov : \A w \in uncov : v <= w
             fit == { k \in 1..Len(rows) : c \in Range(rows[k])
                                           /\ Range(rows[k]) \subseteq uncov }
         IN  UNION { { {k} \cup t : t \in TilingsOf(uncov \ Range(rows[k]), rows) } :
                     k \in fit }

\* the selections a search cut short may hand back, its best effort being
\* undefined: nothing, the first candidate alone, the first and the last
BestEffort(rows) == { {}, {1}, {1, Len(rows)} }

\* optimizer.solve(): the <<status, solution>> pairs it may return
solve(p, md, ncells, bounds) ==
    LET vec(t) == [k \in 1..Len(md.rows) |-> k \in t]
    IN  { <<st, vec(t)>> :
            st \in {"optimal", "feasible"},
            t \in { u \in TilingsOf(0..(ncells - 1), md.rows) :
                      WithinBounds(p, md, vec(u), bounds) } }
        \cup { <<"infeasible", vec({})>> }
        \cup { <<"time-limit-reached", vec(t)>> : t \in BestEffort(md.rows) }

(***************************************************************************)
(* Solution reconstructor: the post-processing part of _fit                *)
(***************************************************************************)
\* the division applied to m * n alone
n_refinements_early_division(m, n, rows) ==
    ((m * n) \div 4) * (m + 1) * (n + 1) - Len(rows)

n_refinements(m, n, rows) == (m * n * (m + 1) * (n + 1)) \div 4 - Len(rows)

\* a[i]: the boolean mask forgotten
SelectedStatUnmasked(a, solution, i) == a[i]

\* a[self._solution][i] for the 1-based position i among the selected
SelectedStat(a, solution, i) == a[SelectIdx(solution, Len(solution), 1)[i]]

\* np.array(rows, dtype=object)[self._solution]
SelectedRows(rows, solution) ==
    [i \in 1..NSelected(solution) |-> SelectedStat(rows, solution, i)]

\* _sums / _n_records in floating point: 0/0 is NaN, else the quotient s/n
Mean(s, n) == IF n = 0 THEN None ELSE Some(<<s, n>>)

\* the values np.empty may hold in a cell that is never written
Uninit == {-1, 0}

\* P after "P[r] = i" for every selected row, in order; g where unwritten
FlatP(selected_rows, ncells, g) ==
    [c \in 0..(ncells - 1) |->
        LET w == { i \in 1..Len(selected_rows) : c \in Range(selected_rows[i]) }
        IN  IF w = {} THEN g ELSE (CHOOSE i \in w : \A q \in w : q <= i) - 1]

\* opt_n_records / opt_sums / opt_stds: the selected, then special, missing
OptArray(a, solution, special, missing) ==
    LET k == NSelected(solution)
    IN  [q \in 1..(k + 2) |->
            IF q <= k THEN SelectedStat(a, solution, q)
            ELSE IF q = k + 1 THEN special ELSE missing]

\* OptimalBinning2D._splits_xy_optimal: the pre-bin boundaries of one axis
\* across which the cell-to-bin map changes
splits_optimal(splits, P, shape, axis) ==
    LET m == shape[1]
        n == shape[2]
        Changes(b) ==
            IF axis = "x"
            THEN \E r \in 0..(m - 1) : b <= n - 1 /\ P[<<r, b - 1>>] # P[<<r, b>>]
            ELSE \E c \in 0..(n - 1) : b <= m - 1 /\ P[<<b - 1, c>>] # P[<<b, c>>]
    IN  FilterSeq(splits, { splits[q] : q \in { b \in 1..Len(splits) : Changes(b) } })

\* the fields of the instance once post-processing has run
postprocessing(me, l, g) ==
    LET m == Val(l.shape)[1]
        n == Val(l.shape)[2]
        rows == Val(l.rows)
        solution == Val(me.solution)
        selected_rows == SelectedRows(rows, solution)
        k == Len(selected_rows)
        opt_n_records == OptArray(Val(l.n_records), solution,
                                  Val(me.n_records_special), Val(me.n_records_missing))
        opt_sums == OptArray(Val(l.sums), solution,
                             Val(me.sum_special), Val(me.sum_missing))
        opt_stds == OptArray(Val(l.stds), solution,
                             Val(me.std_special), Val(me.std_missing))
        flatP == FlatP(selected_rows, m * n, g)
        P == [c \in Shape(m, n) |-> flatP[n * c[1] + c[2]]]
        D == [c \in Shape(m, n) |->
                LET i == P[c]
                IN  IF i \in 0..(k - 1) /\ c[1] * n + c[2] \in Range(selected_rows[i + 1])
                    THEN Mean(opt_sums[i + 1], opt_n_records[i + 1])
                    ELSE Some(<<g, 1>>)]
        sx == splits_optimal(Val(l.splits_x), P, <<m, n>>, "x")
        sy == splits_optimal(Val(l.splits_y), P, <<m, n>>, "y")
    IN  [me EXCEPT
            !.n_refinements = n_refinements(m, n, rows),
            !.selected_rows = Some(selected_rows),
            !.shape = Some(<<m, n>>),
            !.sums = Some(opt_sums),
            !.n_records = Some(opt_n_records),
            !.splits_x_optimal = Some(sx),
            !.splits_y_optimal = Some(sy),
            !.binning_table = Some([splits_x_optimal |-> sx, splits_y_optimal |-> sy,
                                    m |-> m, n |-> n, n_records |-> opt_n_records,
                                    sums |-> opt_sums, stds |-> opt_stds,
                                    D |-> D, P |-> P]),
            !.is_fitted = TRUE]

(***************************************************************************)
(* The instance                                                            *)
(***************************************************************************)
\* __init__: the fields before any fit (attributes fit creates are None)
InitSelf ==
    [ n_records_special |-> None, n_records_missing |-> None,
      sum_special |-> None, sum_missing |-> None,
      std_special |-> None, std_missing |-> None,
      binning_table |-> None, n_prebins |-> None, n_refinements |-> 0,
      n_samples |-> None, solution |-> None,
      splits_x_optimal |-> None, splits_y_optimal |-> None, status |-> None,
      rows |-> None, selected_rows |-> None, shape |-> None,
      sums |-> None, n_records |-> None, clf |-> None,
      is_fitted |-> FALSE ]

\* the frame of a fit call before any local is bound
NoLoc ==
    [ x |-> None, clean |-> None, missing |-> None, special |-> None,
      splits_x |-> None, splits_y |-> None,
      indices_x |-> None, indices_y |-> None, shape |-> None,
      R |-> None, S |-> None, SS |-> None, bounds |-> None,
      rows |-> None, n_records |-> None, sums |-> None, stds |-> None,
      ret |-> None ]

Raised(op, at) == [op |-> op, res |-> "raised", at |-> at]
Returned(op) == [op |-> op, res |-> "returned", at |-> ""]
Running(op) == [op |-> op, res |-> "running", at |-> ""]

\* the data sets of the re-fitting scenario
RefitPool ==
    { <<SampleSeq[1], SampleSeq[2]>>, <<SampleSeq[2], SampleSeq[5]>> }

InitCommon ==
    /\ params \in ValidParams \cup MalformedParams
    /\ self = InitSelf
    /\ pc = "idle"
    /\ loc = NoLoc
    /\ outcome = [op |-> "", res |-> "", at |-> ""]
    /\ committed = None
    /\ tcall = None

Init ==
    /\ InitCommon
    /\ calls = 1
    /\ pool = Datasets(MaxSamples)

InitRefit ==
    /\ InitCommon
    /\ calls = MaxFits
    /\ pool = RefitPool

\* attribute assignment / set_params between calls
SetParams(p) ==
    /\ pc = "idle"
    /\ calls > 0
    /\ p # params
    /\ params' = p
    /\ UNCHANGED <<self, pc, loc, outcome, committed, calls, pool, tcall>>

\* fit -> _fit: _check_parameters(**self.get_params())
FitCheckParameters(data) ==
    /\ pc = "idle"
    /\ calls > 0
    /\ calls' = calls - 1
    /\ loc' = [NoLoc EXCEPT !.x = Some(data)]
    /\ IF check_parameters(params)
       THEN /\ pc' = "preprocessing"
            /\ outcome' = Running("fit")
       ELSE /\ pc' = "idle"
            /\ outcome' = Raised("fit", "check_parameters")
    /\ tcall' = None
    /\ UNCHANGED <<params, self, committed, pool>>

\* _fit: self._n_samples = len(x); split_data_2d
FitPreprocessing ==
    /\ pc = "preprocessing"
    /\ LET parts == split_data_2d(params, Val(loc.x))
       IN  /\ self' = [self EXCEPT !.n_samples = Some(Len(Val(loc.x)))]
           /\ loc' = [loc EXCEPT !.clean = Some(parts[1]),
                                 !.missing = Some(parts[2]),
                                 !.special = Some(parts[3])]
    /\ pc' = "prebinning"
    /\ UNCHANGED <<params, outcome, committed, calls, pool, tcall>>

\* _fit: the two _fit_prebinning calls, which return split arrays or raise
FitPrebinning ==
    /\ pc = "prebinning"
    /\ \/ \E sx \in fit_prebinning([k \in 1..Len(Val(loc.clean)) |->
                                          Val(X(Val(loc.clean)[k]))],
                                      params.max_n_prebins_x,
                                      params.min_prebin_size_x),
             sy \in fit_prebinning([k \in 1..Len(Val(loc.clean)) |->
                                          Val(Y(Val(loc.clean)[k]))],
                                      params.max_n_prebins_y,
                                      params.min_prebin_size_y) :
             /\ loc' = [loc EXCEPT !.splits_x = Some(sx), !.splits_y = Some(sy)]
             /\ pc' = "prebinning_matrices"
             /\ UNCHANGED outcome
       \/ /\ pc' = "idle"
          /\ outcome' = Raised("fit", "prebinning")
          /\ UNCHANGED loc
    /\ UNCHANGED <<params, self, committed, calls, pool, tcall>>

\* the same statistics, with the fitted flag raised before the work is done
SpecialMissingStatsMarkFitted(me, l) ==
    [me EXCEPT
        !.n_records_missing = Some(Len(Val(l.missing))),
        !.n_records_special = Some(Len(Val(l.special))),
        !.sum_missing = Some(ZSum(Val(l.missing))),
        !.sum_special = Some(ZSum(Val(l.special))),
        !.std_missing = Some(IF Len(Val(l.missing)) # 0
                             THEN NpStd(Val(l.missing)) ELSE 0),
        !.std_special = Some(IF Len(Val(l.special)) # 0
                             THEN NpStd(Val(l.special)) ELSE 0),
        !.is_fitted = TRUE]

\* the special / missing statistics _prebinning_matrices stores first
SpecialMissingStats(me, l) ==
    [me EXCEPT
        !.n_records_missing = Some(Len(Val(l.missing))),
        !.n_records_special = Some(Len(Val(l.special))),
        !.sum_missing = Some(ZSum(Val(l.missing))),
        !.sum_special = Some(ZSum(Val(l.special))),
        !.std_missing = Some(IF Len(Val(l.missing)) # 0
                             THEN NpStd(Val(l.missing)) ELSE 0),
        !.std_special = Some(IF Len(Val(l.special)) # 0
                             THEN NpStd(Val(l.special)) ELSE 0)]

\* _fit: R, S, SS = self._prebinning_matrices(...); self._n_prebins = R.size
FitPrebinningMatrices ==
    /\ pc = "prebinning_matrices"
    /\ LET agg == prebinning_matrices(Val(loc.splits_x), Val(loc.splits_y),
                                      Val(loc.clean))
           me == SpecialMissingStats(self, loc)
       IN  IF agg.raised
           THEN /\ self' = me
                /\ pc' = "idle"
                /\ outcome' = Raised("fit", "prebinning_matrices")
                /\ UNCHANGED loc
           ELSE /\ self' = IF params.strategy = "cart" THEN me
                           ELSE [me EXCEPT
                                    !.n_prebins = Some(agg.shape[1] * agg.shape[2])]
                /\ loc' = [loc EXCEPT
                              !.indices_x = Some(agg.indices_x),
                              !.indices_y = Some(agg.indices_y),
                              !.shape = Some(agg.shape),
                              !.R = Some(agg.R), !.S = Some(agg.S),
                              !.SS = Some(agg.SS)]
                /\ pc' = IF params.strategy = "cart" THEN "cart" ELSE "optimizer"
                /\ UNCHANGED outcome
    /\ UNCHANGED <<params, committed, calls, pool, tcall>>

\* _fit, strategy "cart": clf.fit(xyt, z_clean) returns a tree or raises;
\* self._clf = clf; self._n_prebins = R.size
FitCart ==
    /\ pc = "cart"
    /\ \/ \E clf \in CartTrees(Val(loc.shape)[1], Val(loc.shape)[2]) :
             /\ self' = [self EXCEPT
                            !.clf = Some(clf),
                            !.n_prebins = Some(Val(loc.shape)[1] * Val(loc.shape)[2])]
             /\ pc' = "optimizer"
             /\ UNCHANGED outcome
       \/ /\ pc' = "idle"
          /\ outcome' = Raised("fit", "cart")
          /\ UNCHANGED self
    /\ UNCHANGED <<params, loc, committed, calls, pool, tcall>>

\* int(fraction * self._n_samples): truncation instead of np.ceil
BinSizeBoundTruncated(fraction, n_samples) ==
    IF IsNone(fraction) THEN None
    ELSE Some((Val(fraction)[1] * n_samples) \div Val(fraction)[2])

\* _fit_optimizer: int(np.ceil(fraction * self._n_samples)), or None
BinSizeBound(fraction, n_samples) ==
    IF IsNone(fraction) THEN None ELSE Some(CeilScale(Val(fraction), n_samples))

\* the status stored, the solution left as it was
StoreSolverResultNoSolution(me, status, solution, rows) ==
    [me EXCEPT !.status = Some(status), !.rows = Some(rows)]

\* _fit_optimizer, from the solver's return on: what it stores on the instance
StoreSolverResult(me, status, solution, rows) ==
    [me EXCEPT !.solution = Some(solution), !.status = Some(status),
               !.rows = Some(rows)]

\* _fit_optimizer, up to build_model: size bounds and model data
FitModelData ==
    /\ pc = "optimizer"
    /\ LET bounds == << BinSizeBound(params.min_bin_size, Val(self.n_samples)),
                        BinSizeBound(params.max_bin_size, Val(self.n_samples)) >>
           md == IF params.strategy = "cart"
                 THEN continuous_model_data_cart(Val(self.clf), Val(loc.R),
                                                 Val(loc.S), Val(loc.SS),
                                                 Val(loc.shape))
                 ELSE continuous_model_data(Val(loc.R), Val(loc.S), Val(loc.SS),
                                            Val(loc.shape))
       IN  loc' = [loc EXCEPT !.bounds = Some(bounds), !.rows = Some(md.rows),
                              !.n_records = Some(md.n_records),
                              !.sums = Some(md.sums), !.stds = Some(md.stds)]
    /\ pc' = "solver"
    /\ UNCHANGED <<params, self, outcome, committed, calls, pool, tcall>>

\* _fit_optimizer, from optimizer.solve() on: the solver returns or raises
FitSolve ==
    /\ pc = "solver"
    /\ LET md == [rows |-> Val(loc.rows), n_records |-> Val(loc.n_records)]
           ncells == Val(loc.shape)[1] * Val(loc.shape)[2]
       IN  \/ \E o \in solve(params, md, ncells, Val(loc.bounds)) :
                /\ self' = StoreSolverResult(self, o[1], o[2], md.rows)
                /\ loc' = [loc EXCEPT !.ret = Some(o)]
                /\ pc' = "postprocessing"
                /\ UNCHANGED outcome
           \/ /\ pc' = "idle"
              /\ outcome' = Raised("fit", "optimizer")
              /\ UNCHANGED <<self, loc>>
    /\ UNCHANGED <<params, committed, calls, pool, tcall>>

\* _fit: post-processing, self._is_fitted = True, return self
FitPostprocessing ==
    /\ pc = "postprocessing"
    /\ \E g \in Uninit :
          self' = postprocessing(self, loc, g)
    /\ committed' = Some(self')
    /\ pc' = "idle"
    /\ outcome' = Returned("fit")
    /\ UNCHANGED <<params, loc, calls, pool, tcall>>

\* Base._check_is_fitted
check_is_fitted(me) == me.is_fitted

\* the new data a caller passes to transform
TransformPool ==
    { <<SampleSeq[2], SampleSeq[5]>>, <<SampleSeq[3], SampleSeq[4]>> }

\* transformations_2d.transform_continuous_target, one output per sample: a
\* clean sample gets its interval position on each axis of the fitted split
\* arrays, a special or a missing sample the empirical mean of its bin
transform_continuous_target(splits_x, splits_y, data, n_records, sums, p) ==
    LET K == Len(n_records)
    IN  [q \in 1..Len(data) |->
            IF IsSpecial(p, data[q])
            THEN <<"special", 0, 0, Mean(sums[K - 1], n_records[K - 1])>>
            ELSE IF IsMissing(p, data[q])
            THEN <<"missing", 0, 0, Mean(sums[K], n_records[K])>>
            ELSE <<"clean", digitize(Val(X(data[q])), splits_x),
                   digitize(Val(Y(data[q])), splits_y), None>>]

\* what transform returns on the fields me
transform_output(me, p, data) ==
    transform_continuous_target(Val(me.splits_x_optimal), Val(me.splits_y_optimal),
                                data, Val(me.n_records), Val(me.sums), p)

\* the attributes transform reads hold arrays (one that is still None, or
\* that fit has not created yet, makes the call raise)
HasTransformFields(me) ==
    /\ ~IsNone(me.splits_x_optimal) /\ ~IsNone(me.splits_y_optimal)
    /\ ~IsNone(me.n_records) /\ ~IsNone(me.sums)

\* a transform that drops the per-bin sums it has read
TransformConsuming(data) ==
    /\ pc = "idle"
    /\ IF ~check_is_fitted(self)
       THEN /\ outcome' = Raised("transform", "check_is_fitted")
            /\ UNCHANGED <<tcall, self>>
       ELSE IF HasTransformFields(self)
       THEN /\ outcome' = Returned("transform")
            /\ tcall' = Some([arg |-> data,
                              val |-> transform_output(self, params, data)])
            /\ self' = [self EXCEPT !.sums = Some([q \in DOMAIN Val(self.sums) |-> 0])]
       ELSE /\ outcome' = Raised("transform", "transform_continuous_target")
            /\ UNCHANGED <<tcall, self>>
    /\ UNCHANGED <<params, pc, loc, committed, calls, pool>>

\* transform: _check_is_fitted, then transform_continuous_target
Transform(data) ==
    /\ pc = "idle"
    /\ IF ~check_is_fitted(self)
       THEN /\ outcome' = Raised("transform", "check_is_fitted")
            /\ UNCHANGED tcall
       ELSE IF HasTransformFields(self)
       THEN /\ outcome' = Returned("transform")
            /\ tcall' = Some([arg |-> data,
                              val |-> transform_output(self, params, data)])
       ELSE /\ outcome' = Raised("transform", "transform_continuous_target")
            /\ UNCHANGED tcall
    /\ UNCHANGED <<params, self, pc, loc, committed, calls, pool>>

Next ==
    \/ \E p \in ValidParams \cup MalformedParams : SetParams(p)
    \/ \E data \in pool : FitCheckParameters(data)
    \/ FitPreprocessing
    \/ FitPrebinning
    \/ FitPrebinningMatrices
    \/ FitCart
    \/ FitModelData
    \/ FitSolve
    \/ FitPostprocessing
    \/ \E data \in TransformPool : Transform(data)

Spec == Init /\ [][Next]_vars

SpecRefit == InitRefit /\ [][Next]_vars

(***************************************************************************)
(* Properties                                                              *)
(***************************************************************************)
\* the last fit call got past the solver and returned
FitCompleted == pc = "idle" /\ ~IsNone(loc.ret)

\* the fitted state: split arrays, per-bin counts and sums, special and
\* missing statistics, solution, status
FittedState(me) ==
    << me.splits_x_optimal, me.splits_y_optimal, me.n_records, me.sums,
       me.n_records_special, me.n_records_missing, me.sum_special,
       me.sum_missing, me.std_special, me.std_missing, me.solution, me.status >>

\* C1: between calls, an instance marked fitted holds exactly the fitted
\* state of the last fit that returned, never a mixture with the state of a
\* later fit that failed part-way.
C1_AtomicFittedState ==
    (pc = "idle" /\ self.is_fitted)
        => (~IsNone(committed) /\ FittedState(self) = FittedState(Val(committed)))

\* C2: as long as no fit call has returned, every transform call raises the
\* unfit-model error.
C2_TransformRaisesUnfit ==
    (outcome.op = "transform" /\ IsNone(committed))
        => outcome = Raised("transform", "check_is_fitted")

\* C2 witness: transform raised after every allowed fit call had failed, one
\* of them after validation.
C2_Witness ==
    /\ outcome = Raised("transform", "check_is_fitted")
    /\ IsNone(committed)
    /\ calls = 0
    /\ ~IsNone(self.n_samples)

\* C3: a fit call on a malformed configuration raises in _check_parameters,
\* runs no later stage and leaves the parameters and every field unchanged.
C3_MalformedRejected ==
    [][ (calls' # calls /\ params \in MalformedParams)
            => /\ outcome' = Raised("fit", "check_parameters")
               /\ pc' = "idle"
               /\ self' = self
               /\ params' = params
               /\ committed' = committed
               /\ IsNone(loc'.clean) /\ IsNone(loc'.splits_x) /\ IsNone(loc'.ret) ]_vars

\* C3 witness: a fitted instance whose configuration was then made malformed
\* has had a fit call rejected.
C3_Witness ==
    /\ outcome = Raised("fit", "check_parameters")
    /\ params \in MalformedParams
    /\ self.is_fitted
    /\ ~IsNone(self.n_samples)

\* C4: when the solver reported infeasible, fit has not raised and the
\* instance is not marked fitted and exposes no bin table.
C4_InfeasibleSurfacesUnfit ==
    (pc = "idle" /\ ~IsNone(loc.ret) /\ Val(loc.ret)[1] = "infeasible")
        => /\ outcome.res # "raised"
           /\ ~self.is_fitted
           /\ IsNone(self.binning_table)

\* C5: whatever status the solver returned, the instance stores that status
\* and that selection vector, and the optimizer step has not raised.
C5_StatusAndSolutionStored ==
    ~IsNone(loc.ret)
        => /\ self.status = Some(Val(loc.ret)[1])
           /\ self.solution = Some(Val(loc.ret)[2])
           /\ outcome # Raised("fit", "optimizer")

\* C5 witness: the solver returned infeasible and the optimizer step is over.
C5_Witness ==
    /\ pc = "postprocessing"
    /\ ~IsNone(loc.ret)
    /\ Val(loc.ret)[1] = "infeasible"
    /\ self.status = Some("infeasible")

\* C6: for every pair of split arrays the aggregator raises nothing, fills a
\* matrix of (n_bins_x, n_bins_y) cells, and the counts add up to the number
\* of clean samples and the sums to the sum of clean z.
C6_AggregatorTotal ==
    /\ outcome # Raised("fit", "prebinning_matrices")
    /\ ~IsNone(loc.R) =>
          LET cells == SortedSeq({ c[1] * (Len(Val(loc.splits_y)) + 1) + c[2] :
                                     c \in DOMAIN Val(loc.R) })
              n == Len(Val(loc.splits_y)) + 1
              flat(M) == [k \in 1..Len(cells) |-> M[Unflat(cells[k], n)]]
          IN  /\ DOMAIN Val(loc.R) = Shape(Len(Val(loc.splits_x)) + 1, n)
              /\ SumSeq(flat(Val(loc.R))) = Len(Val(loc.clean))
              /\ SumSeq(flat(Val(loc.S))) = ZSum(Val(loc.clean))

CountLt(v, splits) == Cardinality({ q \in 1..Len(splits) : splits[q] < v })
CountLe(v, splits) == Cardinality({ q \in 1..Len(splits) : splits[q] <= v })

\* C7 as stated: every clean sample's index on each axis is the number of
\* split points strictly less than its value.
C7_StrictCount ==
    ~IsNone(loc.indices_x) =>
        \A k \in 1..Len(Val(loc.clean)) :
            /\ Val(loc.indices_x)[k]
                 = CountLt(Val(X(Val(loc.clean)[k])), Val(loc.splits_x))
            /\ Val(loc.indices_y)[k]
                 = CountLt(Val(Y(Val(loc.clean)[k])), Val(loc.splits_y))

\* C7 amended: every clean sample's index on each axis is the number of
\* split points less than or equal to its value (right-open intervals: a
\* value equal to a split point belongs to the interval that starts there).
C7_RightOpenCount ==
    ~IsNone(loc.indices_x) =>
        \A k \in 1..Len(Val(loc.clean)) :
            /\ Val(loc.indices_x)[k]
                 = CountLe(Val(X(Val(loc.clean)[k])), Val(loc.splits_x))
            /\ Val(loc.indices_y)[k]
                 = CountLe(Val(Y(Val(loc.clean)[k])), Val(loc.splits_y))

\* C7 witness: the aggregator has indexed a clean sample whose x equals a
\* split point.
C7_Witness ==
    /\ ~IsNone(loc.indices_x)
    /\ \E k \in 1..Len(Val(loc.clean)) :
          Val(X(Val(loc.clean)[k])) \in Range(Val(loc.splits_x))

\* the candidate selected in i-th place (1-based), read off the solver's vector
NthSelected(sel, i) ==
    CHOOSE q \in DOMAIN sel :
        sel[q] /\ Cardinality({ r \in 1..q : sel[r] }) = i

\* C8: after a fit whose selection tiles the grid exactly, every cell maps to
\* the position of the one selected candidate containing it, each bin carries
\* that candidate's count and sum, and the bins' counts add up to the number
\* of clean samples.
C8_FullTiling ==
    (FitCompleted /\ self.is_fitted
        /\ IsTiling(Val(loc.rows), Val(loc.ret)[2],
                    Val(loc.shape)[1] * Val(loc.shape)[2]))
    => LET sel == Val(loc.ret)[2]
           rows == Val(loc.rows)
           n == Val(loc.shape)[2]
           k == NSelected(sel)
           P == Val(self.binning_table).P
       IN  /\ DOMAIN P = Shape(Val(loc.shape)[1], n)
           /\ \A c \in DOMAIN P :
                 /\ P[c] \in 0..(k - 1)
                 /\ n * c[1] + c[2] \in Range(rows[NthSelected(sel, P[c] + 1)])
           /\ \A i \in 1..k :
                 /\ Val(self.n_records)[i]
                      = RowStat(Val(loc.R), rows[NthSelected(sel, i)], n)
                 /\ Val(self.sums)[i]
                      = RowStat(Val(loc.S), rows[NthSelected(sel, i)], n)
           /\ SumSeq([i \in 1..k |-> Val(self.n_records)[i]]) = Len(Val(loc.clean))

\* C8 witness: a fit has returned on a tiling of two or more candidates of a
\* grid that holds clean samples.
C8_Witness ==
    /\ FitCompleted /\ self.is_fitted
    /\ IsTiling(Val(loc.rows), Val(loc.ret)[2],
                Val(loc.shape)[1] * Val(loc.shape)[2])
    /\ NSelected(Val(loc.ret)[2]) >= 2
    /\ Len(Val(loc.clean)) >= 2

\* ceil(f * n) = b, stated without division
IsCeilOf(b, f, n) == b * f[2] >= f[1] * n /\ (b - 1) * f[2] < f[1] * n

BoundScaledBy(bound, fraction, n) ==
    IF IsNone(fraction) THEN IsNone(bound)
    ELSE ~IsNone(bound) /\ IsCeilOf(Val(bound), Val(fraction), n)

\* C9 as stated: the size bounds handed to the model data are the configured
\* fractions scaled by the number of clean samples, and absent when the
\* fraction is not configured.
C9_ScaledByCleanCount ==
    (pc # "idle" /\ ~IsNone(loc.bounds)) =>
        /\ BoundScaledBy(Val(loc.bounds)[1], params.min_bin_size, Len(Val(loc.clean)))
        /\ BoundScaledBy(Val(loc.bounds)[2], params.max_bin_size, Len(Val(loc.clean)))

\* C9 amended: the size bounds handed to the model data are the configured
\* fractions scaled by the number of samples given to fit (clean, missing and
\* special together) and rounded up, and absent when the fraction is not
\* configured.
C9_ScaledBySampleCount ==
    (pc # "idle" /\ ~IsNone(loc.bounds)) =>
        /\ BoundScaledBy(Val(loc.bounds)[1], params.min_bin_size, Len(Val(loc.x)))
        /\ BoundScaledBy(Val(loc.bounds)[2], params.max_bin_size, Len(Val(loc.x)))

\* C9 witness: bounds were computed from configured fractions on data with
\* missing or special samples, where the two scaling bases give different
\* bounds.
C9_Witness ==
    /\ pc = "postprocessing"
    /\ ~IsNone(params.min_bin_size) /\ ~IsNone(params.max_bin_size)
    /\ Len(Val(loc.clean)) < Len(Val(loc.x))
    /\ ~IsCeilOf(Val(Val(loc.bounds)[2]), Val(params.max_bin_size),
                 Len(Val(loc.clean)))

\* C10: after a fit that returned with k selected candidates, the table has
\* k + 2 entries, the selected candidates in order, then the special and the
\* missing bin with the count and sum of their subsets and a zero deviation
\* when the subset is empty, and all counts add up to the number of samples.
C10_TableLayout ==
    (FitCompleted /\ self.is_fitted)
    => LET sel == Val(loc.ret)[2]
           rows == Val(loc.rows)
           n == Val(loc.shape)[2]
           k == NSelected(sel)
           bt == Val(self.binning_table)
       IN  /\ Len(bt.n_records) = k + 2 /\ Len(bt.sums) = k + 2
           /\ Len(bt.stds) = k + 2
           /\ \A i \in 1..k :
                 /\ bt.n_records[i] = RowStat(Val(loc.R), rows[NthSelected(sel, i)], n)
                 /\ bt.sums[i] = RowStat(Val(loc.S), rows[NthSelected(sel, i)], n)
           /\ bt.n_records[k + 1] = Len(Val(loc.special))
           /\ bt.sums[k + 1] = ZSum(Val(loc.special))
           /\ bt.n_records[k + 2] = Len(Val(loc.missing))
           /\ bt.sums[k + 2] = ZSum(Val(loc.missing))
           /\ (Val(loc.special) = <<>> => bt.stds[k + 1] = 0)
           /\ (Val(loc.missing) = <<>> => bt.stds[k + 2] = 0)
           /\ SumSeq(bt.n_records) = Len(Val(loc.x))

\* a step of a transform call: the only steps taken between calls that leave
\* the parameters and the number of remaining fit calls as they were
TransformStep == pc = "idle" /\ pc' = "idle" /\ calls' = calls /\ params' = params

\* C11: a transform call, whether it returns or raises, leaves every field of
\* the instance (and the parameters) unchanged, and a call that returns gives
\* the output computed on the fields as they were when fit last returned,
\* however many transform calls came before it.
C11_TransformReadOnly ==
    [][ TransformStep
            => /\ self' = self
               /\ committed' = committed
               /\ loc' = loc
               /\ (outcome'.res = "returned" /\ outcome'.op = "transform")
                     => /\ ~IsNone(committed) /\ ~IsNone(tcall')
                        /\ Val(tcall').val
                             = transform_output(Val(committed), params,
                                                Val(tcall').arg) ]_vars

\* C11 witness: on an instance fitted on two or more bins, transform has
\* returned one output per sample for data holding a clean and a special
\* sample.
C11_Witness ==
    /\ outcome = Returned("transform")
    /\ self.is_fitted /\ self = Val(committed)
    /\ Len(Val(self.n_records)) >= 4
    /\ ~IsNone(tcall)
    /\ Len(Val(tcall).val) = Len(Val(tcall).arg)
    /\ \E q \in 1..Len(Val(tcall).arg) : IsSpecial(params, Val(tcall).arg[q])
    /\ \E q \in 1..Len(Val(tcall).arg) : IsClean(params, Val(tcall).arg[q])

\* C12: when the selection handed back by the solver does not tile the grid
\* exactly (a cell covered by no selected candidate or by more than one), the
\* fit call has raised and the instance is not marked fitted.
C12_NonTilingFailsLoudly ==
    (FitCompleted
        /\ ~IsTiling(Val(loc.rows), Val(loc.ret)[2],
                     Val(loc.shape)[1] * Val(loc.shape)[2]))
    => /\ ~self.is_fitted
       /\ (outcome.op = "fit" => outcome.res = "raised")

\* the mean d stored in a cell is the quotient s / n, and not NaN
MeanIs(d, s, n) == ~IsNone(d) /\ Val(d)[1] * n = s * Val(d)[2]

\* C13: after a fit that returned, every cell written for a selected
\* candidate holds the mean recomputed as that candidate's own sum divided by
\* its own count, and holds zero when the candidate's count is zero.
C13_MeanWithZeroGuard ==
    (FitCompleted /\ self.is_fitted)
    => LET sel == Val(loc.ret)[2]
           rows == Val(loc.rows)
           n == Val(loc.shape)[2]
           k == NSelected(sel)
           bt == Val(self.binning_table)
           count(i) == RowStat(Val(loc.R), rows[NthSelected(sel, i)], n)
           sum(i) == RowStat(Val(loc.S), rows[NthSelected(sel, i)], n)
       IN  \A c \in DOMAIN bt.P :
              (bt.P[c] \in 0..(k - 1)
                  /\ n * c[1] + c[2] \in Range(rows[NthSelected(sel, bt.P[c] + 1)]))
              => IF count(bt.P[c] + 1) = 0
                 THEN MeanIs(bt.D[c], 0, 1)
                 ELSE MeanIs(bt.D[c], sum(bt.P[c] + 1), count(bt.P[c] + 1))

\* C14: after a fit that returned on a grid of m x n cells, the recorded
\* number of refinements is m*n*(m+1)*(n+1)/4 minus the number of candidates
\* with nothing lost in the division by 4; it is 0 when the candidate list is
\* the full set of rectangles and non-negative when it is a subset of it.
C14_RefinementsExact ==
    FitCompleted
    => LET m == Val(loc.shape)[1]
           n == Val(loc.shape)[2]
           rows == Val(loc.rows)
           full == { RectCells(r, n) : r \in { q \in Rectangles(m, n) : InGrid(q, m, n) } }
           listed == Range(rows)
       IN  /\ 4 * (self.n_refinements + Len(rows)) = m * n * (m + 1) * (n + 1)
           /\ (Cardinality(listed) = Len(rows) /\ listed \subseteq full)
                 => self.n_refinements >= 0
           /\ (Cardinality(listed) = Len(rows) /\ listed = full)
                 => self.n_refinements = 0

\* C14 witness: a fit under the "cart" strategy has returned on a 3 x 3 grid
\* with a candidate list cut down by the tree, and counts the candidates left
\* out.
C14_Witness ==
    /\ FitCompleted
    /\ params.strategy = "cart"
    /\ Val(loc.shape) = <<3, 3>>
    /\ Len(Val(loc.rows)) < 36
    /\ self.n_refinements = 36 - Len(Val(loc.rows))
    /\ self.n_refinements > 0

====
